---- MODULE Spec2Model ----
(***************************************************************************)
(* Version 8 UUID generation (version8.go): NewV8, NewV8FromReader,        *)
(* NewV8TimeBased and makeV8.                                              *)
(*                                                                         *)
(* A UUID is a function 0..15 -> 0..255 (the source's byte indices).       *)
(* A uint64 is a tuple of four 16-bit limbs, most significant first, so    *)
(* that the full 64-bit width is kept; a uint16 is an integer 0..65535.    *)
(* An io.Reader is the sequence of bytes it delivers before it fails.      *)
(***************************************************************************)
EXTENDS Integers, Sequences, FiniteSets, TLC

VARIABLES
    lastTimestamp,  \* package variable lastTimestamp (uint64)
    sequence,       \* package variable sequence (uint16)
    timeMu,         \* the mutex: 0 when free, else the goroutine holding it
    pc,             \* position of each NewV8TimeBased call
    timestamp,      \* local timestamp of each call
    random,         \* parameter random of each call
    uuid,           \* local buffer uuid of each call
    ret,            \* value returned by each call: [uuid, err]
    pre,            \* history: <<lastTimestamp, sequence>> seen by the call at line 79
    ctr,            \* history: value of sequence the call encoded at line 95
    order,          \* history: rank of the call in lock-acquisition order
    prior,          \* history: number of calls completed before the initial state
    op,             \* sequential calls: operation last called
    inA,            \* sequential calls: argument customA
    inB,            \* sequential calls: argument customB
    inC,            \* sequential calls: argument random / customC
    out,            \* sequential calls: Identifier returned (or buffer written)
    err             \* sequential calls: TRUE when an error was returned

tbvars == <<lastTimestamp, sequence, timeMu, pc, timestamp, random, uuid, ret,
            pre, ctr, order, prior>>
genvars == <<op, inA, inB, inC, out, err>>
vars == <<lastTimestamp, sequence, timeMu, pc, timestamp, random, uuid, ret,
          pre, ctr, order, prior, op, inA, inB, inC, out, err>>

----------------------------------------------------------------------------
(* Bounds *)

NumProcs == 3

Procs == 1..NumProcs

----------------------------------------------------------------------------
(* Machine arithmetic *)

Pow16 == 65536

RECURSIVE BitAnd(_, _)
BitAnd(a, b) ==
    IF a = 0 \/ b = 0 THEN 0
    ELSE (a % 2) * (b % 2) + 2 * BitAnd(a \div 2, b \div 2)

RECURSIVE BitOr(_, _)
BitOr(a, b) ==
    IF a = 0 THEN b
    ELSE IF b = 0 THEN a
    ELSE (IF (a % 2) + (b % 2) >= 1 THEN 1 ELSE 0) + 2 * BitOr(a \div 2, b \div 2)

\* uint16(v) of a uint64: the least significant limb
ToUint16(v) == v[4]

\* byte(v >> (56 - 8k)), k = 0..7
U64Byte(v, k) ==
    IF k % 2 = 0 THEN v[(k \div 2) + 1] \div 256 ELSE v[(k \div 2) + 1] % 256

\* binary.BigEndian.PutUint64(b[off:off+8], v)
PutUint64(b, off, v) ==
    [i \in 0..15 |-> IF i >= off /\ i < off + 8 THEN U64Byte(v, i - off) ELSE b[i]]

\* binary.BigEndian.PutUint16(b[off:], v)
PutUint16(b, off, v) ==
    [i \in 0..15 |-> IF i = off THEN v \div 256
                     ELSE IF i = off + 1 THEN v % 256
                     ELSE b[i]]

\* copy(b[:6], b[2:8])
CopyLow48(b) == [i \in 0..15 |-> IF i < 6 THEN b[i + 2] ELSE b[i]]

\* b[6] = (b[6] & 0x0F) | 0x80
SetVersion(b) == [b EXCEPT ![6] = BitOr(BitAnd(b[6], 15), 128)]

\* b[8] = (b[8] & 0x3F) | 0x80
SetVariant(b) == [b EXCEPT ![8] = BitOr(BitAnd(b[8], 63), 128)]

Nil == [i \in 0..15 |-> 0]

\* io.ReadFull(r, b[off:]): r delivers the bytes of the sequence r, then fails
ReadFull(r, b, off) ==
    [buf |-> [i \in 0..15 |-> IF i >= off /\ i - off < Len(r) THEN r[i - off + 1] ELSE b[i]],
     err |-> Len(r) < 16 - off]

----------------------------------------------------------------------------
(* Inputs *)

Zero64 == <<0, 0, 0, 0>>

\* two readings of the clock that differ only in the top 16 bits
TLo == <<0, 0, 258, 772>>
THi == <<1, 0, 258, 772>>

Ticks == {TLo, THi}

\* a reader value: the nil interface, or a reader delivering data and then failing
NilReader == [nil |-> TRUE, data |-> <<>>]
Reader(d) == [nil |-> FALSE, data |-> d]

TBReaders == {NilReader, Reader(<<193, 2, 3, 4, 5, 6>>), Reader(<<170, 187, 204>>)}

----------------------------------------------------------------------------
(* NewV8TimeBased *)

\* variant of SeqStep: the counter is not advanced on an equal tick
SeqStep_NoInc(ts, last, seq) ==
    IF ts = last THEN <<last, seq>> ELSE <<ts, 0>>

\* variant of SeqStep: the counter is wider than 16 bits
SeqStep_NoWrap(ts, last, seq) ==
    IF ts = last THEN <<last, seq + 1>> ELSE <<ts, 0>>

\* lines 79-84: the new <<lastTimestamp, sequence>>
SeqStep(ts, last, seq) ==
    IF ts = last THEN <<last, (seq + 1) % Pow16>> ELSE <<ts, 0>>

\* variant of TBEncode: line 88 missing
TBEncode_NoCopy(u, ts, seq) ==
    PutUint16(SetVariant(SetVersion(PutUint64(u, 0, ts))), 8, seq)

\* lines 86-95: custom_a, version, variant, sequence
TBEncode(u, ts, seq) ==
    PutUint16(SetVariant(SetVersion(CopyLow48(PutUint64(u, 0, ts)))), 8, seq)

\* lines 98-104: the buffer after the fill
TBFillBuf(u, rd) ==
    IF rd.nil THEN [i \in 0..15 |-> IF i >= 10 THEN 0 ELSE u[i]]
    ELSE ReadFull(rd.data, u, 10).buf

\* variant of TBReturn: the buffer is returned with the error
TBReturn_Leak(u, rd) ==
    IF ~rd.nil /\ ReadFull(rd.data, u, 10).err
    THEN [uuid |-> TBFillBuf(u, rd), err |-> TRUE]
    ELSE [uuid |-> TBFillBuf(u, rd), err |-> FALSE]

\* lines 102-106: the returned pair
TBReturn(u, rd) ==
    IF ~rd.nil /\ ReadFull(rd.data, u, 10).err
    THEN [uuid |-> Nil, err |-> TRUE]
    ELSE [uuid |-> TBFillBuf(u, rd), err |-> FALSE]

\* states of the package variables the program reaches: the start of the
\* process, and the state after 65536 calls that all read TLo
StartStates ==
    {[last |-> Zero64, seq |-> 0, prior |-> 0],
     [last |-> TLo, seq |-> 65535, prior |-> 65536]}

NoRet == [uuid |-> Nil, err |-> FALSE]

GenIdle ==
    /\ op = "none"
    /\ inA = <<>>
    /\ inB = <<>>
    /\ inC = <<>>
    /\ out = Nil
    /\ err = FALSE

Init ==
    /\ \E s \in StartStates :
          /\ lastTimestamp = s.last
          /\ sequence = s.seq
          /\ prior = s.prior
    /\ timeMu = 0
    /\ pc = [p \in Procs |-> "idle"]
    /\ timestamp = [p \in Procs |-> Zero64]
    /\ random = [p \in Procs |-> NilReader]
    /\ uuid = [p \in Procs |-> Nil]
    /\ ret = [p \in Procs |-> NoRet]
    /\ pre = [p \in Procs |-> <<Zero64, 0>>]
    /\ ctr = [p \in Procs |-> 0]
    /\ order = [p \in Procs |-> 0]
    /\ GenIdle

\* lines 72-74: entry, var uuid UUID, timestamp := time.Now().UnixNano()
Begin(p) ==
    /\ pc[p] = "idle"
    /\ \E t \in Ticks, rd \in TBReaders :
          /\ timestamp' = [timestamp EXCEPT ![p] = t]
          /\ random' = [random EXCEPT ![p] = rd]
    /\ uuid' = [uuid EXCEPT ![p] = Nil]
    /\ pc' = [pc EXCEPT ![p] = "lock"]
    /\ UNCHANGED <<lastTimestamp, sequence, timeMu, ret, pre, ctr, order, prior>>
    /\ UNCHANGED genvars

\* line 76: timeMu.Lock()
Lock(p) ==
    /\ pc[p] = "lock"
    /\ timeMu = 0
    /\ timeMu' = p
    /\ order' = [order EXCEPT ![p] = Cardinality({q \in Procs : order[q] > 0}) + 1]
    /\ pc' = [pc EXCEPT ![p] = "update"]
    /\ UNCHANGED <<lastTimestamp, sequence, timestamp, random, uuid, ret, pre, ctr, prior>>
    /\ UNCHANGED genvars

\* lines 79-84
Update(p) ==
    /\ pc[p] = "update"
    /\ lastTimestamp' = SeqStep(timestamp[p], lastTimestamp, sequence)[1]
    /\ sequence' = SeqStep(timestamp[p], lastTimestamp, sequence)[2]
    /\ pre' = [pre EXCEPT ![p] = <<lastTimestamp, sequence>>]
    /\ pc' = [pc EXCEPT ![p] = "encode"]
    /\ UNCHANGED <<timeMu, timestamp, random, uuid, ret, ctr, order, prior>>
    /\ UNCHANGED genvars

\* lines 86-95
Encode(p) ==
    /\ pc[p] = "encode"
    /\ uuid' = [uuid EXCEPT ![p] = TBEncode(uuid[p], timestamp[p], sequence)]
    /\ ctr' = [ctr EXCEPT ![p] = sequence]
    /\ pc' = [pc EXCEPT ![p] = "fill"]
    /\ UNCHANGED <<lastTimestamp, sequence, timeMu, timestamp, random, ret, pre, order, prior>>
    /\ UNCHANGED genvars

\* lines 98-106: the fill and the return statement
Fill(p) ==
    /\ pc[p] = "fill"
    /\ uuid' = [uuid EXCEPT ![p] = TBFillBuf(uuid[p], random[p])]
    /\ ret' = [ret EXCEPT ![p] = TBReturn(uuid[p], random[p])]
    /\ pc' = [pc EXCEPT ![p] = "unlock"]
    /\ UNCHANGED <<lastTimestamp, sequence, timeMu, timestamp, random, pre, ctr, order, prior>>
    /\ UNCHANGED genvars

\* variant of Unlock: the mutex is released on the successful return only
Unlock_SkipOnError(p) ==
    /\ pc[p] = "unlock"
    /\ timeMu' = IF ret[p].err THEN timeMu ELSE 0
    /\ pc' = [pc EXCEPT ![p] = "done"]
    /\ UNCHANGED <<lastTimestamp, sequence, timestamp, random, uuid, ret, pre, ctr, order, prior>>
    /\ UNCHANGED genvars

\* line 77: the deferred timeMu.Unlock(), run as the call returns
Unlock(p) ==
    /\ pc[p] = "unlock"
    /\ timeMu' = 0
    /\ pc' = [pc EXCEPT ![p] = "done"]
    /\ UNCHANGED <<lastTimestamp, sequence, timestamp, random, uuid, ret, pre, ctr, order, prior>>
    /\ UNCHANGED genvars

NewV8TimeBased(p) ==
    \/ Begin(p)
    \/ Lock(p)
    \/ Update(p)
    \/ Encode(p)
    \/ Fill(p)
    \/ Unlock(p)


----------------------------------------------------------------------------
(* NewV8, NewV8FromReader, makeV8: sequential calls *)

\* values of customA: 0x0102030405 (the documented example), a value wider
\* than 48 bits, the extremes
CustomAs == {Zero64, <<0, 1, 515, 1029>>, <<43981, 258, 772, 1286>>,
             <<65535, 65535, 65535, 65535>>}

\* values of customB: 0x0AB, 0xFFF, 0x1000, 0x10AB, 0x80AB, 0xFFFF, 0x100AB
CustomBs == {<<0, 0, 0, 171>>, <<0, 0, 0, 4095>>, <<0, 0, 0, 4096>>,
             <<0, 0, 0, 4267>>, <<0, 0, 0, 32939>>, <<0, 0, 0, 65535>>,
             <<0, 0, 1, 171>>}

GenReaders == {NilReader,
               Reader(<<255, 255, 255, 255, 255, 255, 255, 255>>),
               Reader(<<0, 0, 0, 0, 0, 0, 0, 0>>),
               Reader(<<65, 2, 3, 4, 5, 6, 7, 8>>),
               Reader(<<170, 187, 204>>),
               Reader(<<>>)}

\* what the package's default source rander delivers
Randers == {<<60, 61, 62, 63, 64, 65, 66, 67>>, <<>>}

AllFF == [i \in 0..15 |-> 255]
Mixed == [i \in 0..15 |-> 16 * i + 7]

RandomUUIDs == {Nil, AllFF, Mixed}

\* NewRandom(): 16 random bytes, or Nil and an error
NewRandomResults ==
    {[uuid |-> u, err |-> FALSE] : u \in RandomUUIDs} \cup {[uuid |-> Nil, err |-> TRUE]}

\* lines 34-42, nr the pair NewRandom returned
NewV8(nr) ==
    IF nr.err THEN nr
    ELSE [uuid |-> SetVariant(SetVersion(nr.uuid)), err |-> FALSE]

\* variant of FREncodeA: line 52 missing
FREncodeA_NoCopy(u, customA) == PutUint64(u, 0, customA)

\* lines 50-52
FREncodeA(u, customA) == CopyLow48(PutUint64(u, 0, customA))

\* lines 55-56
FREncodeB(u, customB) ==
    PutUint16(SetVersion(u), 6, BitOr(ToUint16(customB), 32768))

\* lines 59-61: the bytes the reader in use delivers
FRSource(rd, rander) == IF rd.nil THEN rander ELSE rd.data

\* lines 47-68
NewV8FromReader(customA, customB, rd, rander) ==
    LET u  == FREncodeB(FREncodeA(Nil, customA), customB)
        rf == ReadFull(FRSource(rd, rander), u, 8)
    IN  IF rf.err THEN [uuid |-> Nil, err |-> TRUE]
        ELSE [uuid |-> SetVariant(rf.buf), err |-> FALSE]

\* a []byte argument: nil, or a slice
NilSpan == [nil |-> TRUE, data |-> <<>>]
Span(d) == [nil |-> FALSE, data |-> d]

SpansA == {NilSpan, Span(<<1, 2, 3, 4, 5, 6>>)}
SpansB == {NilSpan, Span(<<0, 171>>), Span(<<138, 171>>), Span(<<255, 255>>)}
SpansC == {NilSpan, Span(<<0, 0, 0, 0, 0, 0, 0, 0>>), Span(<<129, 2, 3, 4, 5, 6, 7, 8>>),
           Span(<<255, 255, 255, 255, 255, 255, 255, 255>>)}

Min(a, b) == IF a < b THEN a ELSE b

\* copy(b[lo:hi], src)
CopySpan(b, lo, hi, src) ==
    [i \in 0..15 |-> IF i >= lo /\ i < lo + Min(hi - lo, Len(src)) THEN src[i - lo + 1] ELSE b[i]]

\* randomBits(b[lo:hi]), rnd the bytes drawn
randomBits(b, lo, hi, rnd) ==
    [i \in 0..15 |-> IF i >= lo /\ i < hi THEN rnd[i] ELSE b[i]]

\* lines 129-133, 137-141, 145-149
FillSpan(b, lo, hi, span, rnd) ==
    IF ~span.nil THEN CopySpan(b, lo, hi, span.data) ELSE randomBits(b, lo, hi, rnd)

\* lines 110-150
makeV8(u, customA, customB, customC, rnd) ==
    LET a == FillSpan(u, 0, 6, customA, rnd)
        b == FillSpan(SetVersion(a), 6, 8, customB, rnd)
        c == FillSpan(SetVariant(b), 8, 16, customC, rnd)
    IN  c

CallNewV8 ==
    /\ \E nr \in NewRandomResults :
          /\ out' = NewV8(nr).uuid
          /\ err' = NewV8(nr).err
          /\ inC' = nr.uuid
    /\ op' = "NewV8"
    /\ inA' = <<>>
    /\ inB' = <<>>
    /\ UNCHANGED tbvars

CallNewV8FromReader ==
    /\ \E customA \in CustomAs, customB \in CustomBs, rd \in GenReaders, rander \in Randers :
          /\ out' = NewV8FromReader(customA, customB, rd, rander).uuid
          /\ err' = NewV8FromReader(customA, customB, rd, rander).err
          /\ inA' = customA
          /\ inB' = customB
          /\ inC' = [nil |-> rd.nil, data |-> FRSource(rd, rander)]
    /\ op' = "NewV8FromReader"
    /\ UNCHANGED tbvars

CallMakeV8 ==
    /\ \E u \in {Nil, AllFF}, customA \in SpansA, customB \in SpansB, customC \in SpansC,
          rnd \in RandomUUIDs :
          /\ out' = makeV8(u, customA, customB, customC, rnd)
          /\ inA' = customA
          /\ inB' = customB
          /\ inC' = customC
    /\ err' = FALSE
    /\ op' = "makeV8"
    /\ UNCHANGED tbvars

Sequential ==
    \/ CallNewV8
    \/ CallNewV8FromReader
    \/ CallMakeV8

\* The sequential operations and NewV8TimeBased share no state, so a
\* behaviour is either a run of sequential calls or a run of concurrent
\* NewV8TimeBased calls.
Next ==
    \/ (op = "none" /\ \E p \in Procs : NewV8TimeBased(p))
    \/ ((\A p \in Procs : pc[p] = "idle") /\ Sequential)

Spec == Init /\ [][Next]_vars

----------------------------------------------------------------------------
(* Properties *)

\* top nibble of byte 6 is 1000, top 2 bits of byte 8 are 10
HasV8Format(u) == u[6] \div 16 = 8 /\ u[8] \div 64 = 2

\* the call has been assigned its counter
Assigned(p) == pc[p] \in {"fill", "unlock", "done"}

\* the call has returned
Returned(p) == pc[p] = "done"

\* the low 48 bits of a uint64
Low48(v) == <<v[2], v[3], v[4]>>

\* C1: every Identifier a generator returns without error has version
\* nibble 1000 and variant bits 10.
C1_FormatInvariant ==
    /\ \A p \in Procs : (Returned(p) /\ ~ret[p].err) => HasV8Format(ret[p].uuid)
    /\ (op \in {"NewV8", "NewV8FromReader"} /\ ~err) => HasV8Format(out)

\* C2: with fewer than 65536 calls in total, no two NewV8TimeBased calls
\* that read the same tick get the same counter, and with a nil random
\* source no two such calls return the same Identifier.
C2_DistinctCounters ==
    (prior + Cardinality({p \in Procs : pc[p] # "idle"}) < 65536) =>
        \A p, q \in Procs :
            (p # q /\ Assigned(p) /\ Assigned(q) /\ timestamp[p] = timestamp[q]) =>
                /\ ctr[p] # ctr[q]
                /\ (Returned(p) /\ Returned(q) /\ random[p].nil /\ random[q].nil)
                      => ret[p].uuid # ret[q].uuid

\* C3: bytes 6-7 of a successful NewV8FromReader output are
\* 0x8000 | (customB mod 4096).
C3_CustomBMasked ==
    (op = "NewV8FromReader" /\ ~err) =>
        out[6] * 256 + out[7] = BitOr(32768, inB[4] % 4096)

\* C4: decoding a successful NewV8FromReader output at the documented bit
\* positions gives customA mod 2^48, customB mod 2^12 and the low 62 bits
\* of the reader's 8 bytes.
C4_RoundTrip ==
    (op = "NewV8FromReader" /\ ~err) =>
        /\ <<out[0] * 256 + out[1], out[2] * 256 + out[3], out[4] * 256 + out[5]>> = Low48(inA)
        /\ (out[6] % 16) * 256 + out[7] = inB[4] % 4096
        /\ out[8] % 64 = inC.data[1] % 64
        /\ \A i \in 9..15 : out[i] = inC.data[i - 7]

C4_Witness ==
    /\ op = "NewV8FromReader"
    /\ ~err
    /\ inA[1] # 0
    /\ inB[4] > 4095
    /\ inC.data[1] >= 64

\* C5: a failing random source makes NewV8FromReader and NewV8TimeBased
\* return Nil with the error, never the partly written buffer; NewV8 returns
\* Nil with its error; NewV8TimeBased with a nil reader never fails.
C5_NilOnError ==
    /\ \A p \in Procs : pc[p] \in {"unlock", "done"} =>
          /\ (~random[p].nil /\ Len(random[p].data) < 6) => ret[p].err
          /\ ret[p].err => ret[p].uuid = Nil
          /\ random[p].nil => ~ret[p].err
    /\ op = "NewV8FromReader" =>
          /\ Len(inC.data) < 8 => err
          /\ err => out = Nil
    /\ op = "NewV8" => (err => out = Nil)

C5_Witness ==
    \E p \in Procs :
        /\ Returned(p)
        /\ ret[p].err
        /\ ret[p].uuid = Nil
        /\ uuid[p] # Nil
        /\ uuid[p][10] = 170

\* all calls started so far read the same tick
FixedTick ==
    \A p, q \in Procs : (pc[p] # "idle" /\ pc[q] # "idle") => timestamp[p] = timestamp[q]

C7_DeterministicNilReader ==
    \A p \in Procs : (Returned(p) /\ random[p].nil) =>
        /\ \A k \in 0..2 :
              /\ ret[p].uuid[2 * k] = timestamp[p][k + 2] \div 256
              /\ ret[p].uuid[2 * k + 1] = timestamp[p][k + 2] % 256
        /\ \A i \in 10..15 : ret[p].uuid[i] = 0
        /\ \A q \in Procs :
              (Returned(q) /\ random[q].nil /\ ctr[q] = ctr[p]
                 /\ Low48(timestamp[q]) = Low48(timestamp[p])) => ret[q].uuid = ret[p].uuid

C7_Witness ==
    \E p, q \in Procs :
        /\ Returned(p) /\ Returned(q)
        /\ random[p].nil /\ random[q].nil
        /\ timestamp[p] # timestamp[q]
        /\ ctr[p] = ctr[q]
        /\ ret[p].uuid = ret[q].uuid

\* unsigned comparison a < b of two uint64
U64Less(a, b) ==
    \E k \in 1..4 : a[k] < b[k] /\ \A j \in 1..(k - 1) : a[j] = b[j]

\* C8: the call holding the lock takes (last_tick, counter) to
\* (t, (counter + 1) mod 65536) when t = last_tick and to (t, 0) otherwise,
\* also when t < last_tick; no other step changes the pair, and a call
\* fails only when its supplied reader fails.
C8_SequenceTransition ==
    [][ /\ \/ <<lastTimestamp', sequence'>> = <<lastTimestamp, sequence>>
           \/ \E p \in Procs :
                 /\ pc[p] = "update" /\ pc'[p] = "encode"
                 /\ timeMu = p
                 /\ lastTimestamp' = timestamp[p]
                 /\ sequence' = IF timestamp[p] = lastTimestamp
                                 THEN (sequence + 1) % 65536 ELSE 0
        /\ \A p \in Procs : (pc[p] = "update" /\ pc'[p] = "encode") =>
              /\ lastTimestamp' = timestamp[p]
              /\ sequence' \in 0..65535
              /\ sequence' = IF timestamp[p] = lastTimestamp
                              THEN (sequence + 1) % 65536 ELSE 0
        /\ \A p \in Procs : ret'[p].err =>
              (~random'[p].nil /\ Len(random'[p].data) < 6)
      ]_vars

C8_Witness ==
    \E p, q \in Procs :
        /\ Returned(p) /\ Returned(q)
        /\ pre[p] = <<timestamp[p], 65535>> /\ ctr[p] = 0
        /\ U64Less(timestamp[q], pre[q][1]) /\ ctr[q] = 0
        /\ lastTimestamp = timestamp[q]
        /\ ~ret[p].err /\ ~ret[q].err

\* C9: after makeV8 returns, the top nibble of byte 6 is 1000 and the top
\* 2 bits of byte 8 are 10, for supplied and absent spans alike.
C9_MakeV8Stamps ==
    op = "makeV8" => HasV8Format(out)

\* C10: a NewV8TimeBased call that fails on its reader has applied its
\* sequence-state update and releases the lock: the state it leaves is the
\* one a successful call on the same tick leaves, the next call on that
\* tick gets the following counter, and the lock is held only by a call
\* still running.
C10_FailedCallUpdatesAndUnlocks ==
    /\ \A p \in Procs : (pc[p] \in {"unlock", "done"} /\ ret[p].err) =>
          /\ pc[p] = "unlock" =>
                <<lastTimestamp, sequence>> = SeqStep(timestamp[p], pre[p][1], pre[p][2])
          /\ ctr[p] = SeqStep(timestamp[p], pre[p][1], pre[p][2])[2]
          /\ pc[p] = "done" => timeMu # p
          /\ \A q \in Procs :
                (Assigned(q) /\ order[q] = order[p] + 1 /\ timestamp[q] = timestamp[p]) =>
                    ctr[q] = (ctr[p] + 1) % 65536
    /\ timeMu # 0 => pc[timeMu] \in {"update", "encode", "fill", "unlock"}
    /\ (\A p \in Procs : pc[p] \in {"idle", "lock", "done"}) => timeMu = 0

C10_Witness ==
    \E p, q \in Procs :
        /\ Returned(p) /\ Returned(q)
        /\ ret[p].err
        /\ order[q] = order[p] + 1
        /\ timestamp[q] = timestamp[p]
        /\ ctr[q] = ctr[p] + 1
        /\ timeMu = 0

====
